---- MODULE Spec2Model ----
(***************************************************************************)
(* Huffman compressor: NodoHuffman / ArbolHuffman (src/src/huffman_tree.py) *)
(* and CompresorHuffman (src/src/huffman_compressor.py).                    *)
(*                                                                         *)
(* Texts are sequences of one-character strings, codes and encoded texts   *)
(* are sequences of the digits "0" and "1".  NodoHuffman objects live in a *)
(* store `mem` (identifier -> fields); a reference is an identifier and    *)
(* the null reference is None.  Python dicts are functions; the frequency  *)
(* table, whose iteration order the tree builder depends on, is a sequence *)
(* of <<caracter, frecuencia>> pairs in insertion order.  Floats are exact *)
(* fractions <<numerator, denominator>>.                                   *)
(***************************************************************************)
EXTENDS Integers, Sequences, FiniteSets, TLC

\* ---------------------------------------------------------------- bounds
Symbols == {"A", "B", "C"}
\* the symbols of the tables given to an ArbolHuffman used on its own
SimbolosTabla == Symbols \cup {"D"}
Digitos == {"0", "1"}
MaxLen == 3
MaxBits == 3
Tiempos == {0, 1}

Seqs(S, n) == UNION {[1..k -> S] : k \in 0..n}
Textos == Seqs(Symbols, MaxLen)
Cadenas == Seqs(Digitos, MaxBits)

\* ------------------------------------------------------- Python values
None == 0
SinCaracter == "None"
SinError == "ok"
Frac(n, d) == <<n, d>>
Cero == Frac(0, 1)

Put(d, k, v) == [x \in (DOMAIN d) \cup {k} |-> IF x = k THEN v ELSE d[x]]
Update(a, b) == [k \in (DOMAIN a) \cup (DOMAIN b) |-> IF k \in DOMAIN b THEN b[k] ELSE a[k]]

\* an assignment x = v followed by F(x): v is evaluated once
Sea(v, F(_)) == CHOOSE r \in {F(x) : x \in {v}} : TRUE

RECURSIVE Repetir(_, _)
Repetir(c, n) == IF n = 0 THEN <<>> ELSE <<c>> \o Repetir(c, n - 1)

\* ------------------------------------------------------- NodoHuffman
NodoHuffman(caracter, frecuencia, izquierdo, derecho) ==
    [caracter |-> caracter, frecuencia |-> frecuencia,
     izquierdo |-> izquierdo, derecho |-> derecho]

\* Object identifiers.  The nodes of one tree are allocated next to each other in
\* an arena large enough for the largest tree; a tree under construction takes the
\* first arena in which no object is alive.
TamArena == 2 * Cardinality(SimbolosTabla) - 1
Arena(k) == (k * TamArena + 1)..((k + 1) * TamArena)
ArenaLibre(m) ==
    CHOOSE k \in 0..Cardinality(DOMAIN m) :
        /\ Arena(k) \cap DOMAIN m = {}
        /\ \A j \in 0..(k - 1) : Arena(j) \cap DOMAIN m # {}

\* NodoHuffman(...): a new object in arena k
Nuevo(m, k, nodo) ==
    LET id == k * TamArena + 1 + Cardinality(Arena(k) \cap DOMAIN m)
    IN [id |-> id, mem |-> [x \in (DOMAIN m) \cup {id} |-> IF x = id THEN nodo ELSE m[x]]]

\* as lt, with the comparison reversed
lt_mayor(m, a, b) == m[a].frecuencia > m[b].frecuencia

\* NodoHuffman.__lt__
lt(m, a, b) == m[a].frecuencia < m[b].frecuencia

es_hoja(nodo) == nodo.caracter # SinCaracter

\* objects reachable from a reference; unreachable objects are reclaimed
RECURSIVE Alcanzables(_, _)
Alcanzables(m, r) ==
    IF r = None \/ r \notin DOMAIN m THEN {}
    ELSE {r} \cup Alcanzables(m, m[r].izquierdo) \cup Alcanzables(m, m[r].derecho)

Recolectar(m, raices) ==
    LET vivos == UNION {Alcanzables(m, r) : r \in raices}
    IN [x \in vivos |-> m[x]]

\* the tree below a reference as a value (shape, caracter and frecuencia of every node)
RECURSIVE Desplegar(_, _)
Desplegar(m, r) ==
    IF r = None THEN <<>>
    ELSE <<m[r].caracter, m[r].frecuencia,
           Desplegar(m, m[r].izquierdo), Desplegar(m, m[r].derecho)>>

\* ------------------------------------------------------- heapq
RECURSIVE SiftdownLoop(_, _, _, _, _)
SiftdownLoop(m, heap, startpos, pos, newitem) ==
    IF pos > startpos
    THEN LET parentpos == (pos - 1) \div 2
             parent == heap[parentpos + 1]
         IN IF lt(m, newitem, parent)
            THEN SiftdownLoop(m, [heap EXCEPT ![pos + 1] = parent], startpos, parentpos, newitem)
            ELSE [heap EXCEPT ![pos + 1] = newitem]
    ELSE [heap EXCEPT ![pos + 1] = newitem]

siftdown(m, heap, startpos, pos) == SiftdownLoop(m, heap, startpos, pos, heap[pos + 1])

RECURSIVE SiftupLoop(_, _, _, _)
SiftupLoop(m, heap, pos, childpos) ==
    IF childpos < Len(heap)
    THEN LET rightpos == childpos + 1
             c == IF rightpos < Len(heap) /\ ~lt(m, heap[childpos + 1], heap[rightpos + 1])
                  THEN rightpos ELSE childpos
         IN SiftupLoop(m, [heap EXCEPT ![pos + 1] = heap[c + 1]], c, 2 * c + 1)
    ELSE [heap |-> heap, pos |-> pos]

siftup(m, heap, pos) ==
    LET newitem == heap[pos + 1]
        r == SiftupLoop(m, heap, pos, 2 * pos + 1)
    IN siftdown(m, [r.heap EXCEPT ![r.pos + 1] = newitem], pos, r.pos)

\* as heappush, with the node left at the end of the list
heappush_sin_orden(m, heap, item) == Append(heap, item)

heappush(m, heap, item) == siftdown(m, Append(heap, item), 0, Len(heap))

\* as heappop, taking the last node of the list instead of the first
heappop_ultimo(m, heap) ==
    [item |-> heap[Len(heap)], heap |-> SubSeq(heap, 1, Len(heap) - 1)]

heappop(m, heap) ==
    LET lastelt == heap[Len(heap)]
        rest == SubSeq(heap, 1, Len(heap) - 1)
    IN IF rest # <<>>
       THEN [item |-> rest[1], heap |-> siftup(m, [rest EXCEPT ![1] = lastelt], 0)]
       ELSE [item |-> lastelt, heap |-> rest]

\* ------------------------------------------------------- ArbolHuffman
\* the for loop: one leaf per table entry, pushed in the table's order
RECURSIVE InsertarHojas(_, _, _)
InsertarHojas(st, frecuencias, i) ==
    IF i > Len(frecuencias) THEN st
    ELSE LET n == Nuevo(st.mem, st.arena,
                        NodoHuffman(frecuencias[i][1], frecuencias[i][2], None, None))
         IN InsertarHojas([st EXCEPT !.mem = n.mem, !.heap = heappush(n.mem, st.heap, n.id)],
                          frecuencias, i + 1)

\* as Combinar, with the weight of the first node popped as the weight of the parent
Combinar_peso_izquierdo(st) ==
    Sea(heappop(st.mem, st.heap), LAMBDA p1 :
    Sea(heappop(st.mem, p1.heap), LAMBDA p2 :
    Sea(Nuevo(st.mem, st.arena,
              NodoHuffman(SinCaracter, st.mem[p1.item].frecuencia, p1.item, p2.item)),
        LAMBDA n :
        [mem |-> n.mem, arena |-> st.arena, heap |-> heappush(n.mem, p2.heap, n.id),
         izquierdo |-> p1.item, derecho |-> p2.item, padre |-> n.id])))

\* as Combinar, with the first node popped as both children of the parent
Combinar_mismo_hijo(st) ==
    Sea(heappop(st.mem, st.heap), LAMBDA p1 :
    Sea(heappop(st.mem, p1.heap), LAMBDA p2 :
    Sea(Nuevo(st.mem, st.arena,
              NodoHuffman(SinCaracter,
                  st.mem[p1.item].frecuencia + st.mem[p2.item].frecuencia,
                  p1.item, p1.item)), LAMBDA n :
        [mem |-> n.mem, arena |-> st.arena, heap |-> heappush(n.mem, p2.heap, n.id),
         izquierdo |-> p1.item, derecho |-> p2.item, padre |-> n.id])))

\* one iteration of the while loop: pop two nodes, push their parent.  st holds the
\* store, the arena of the tree and the local heap; the locals izquierdo (p1.item),
\* derecho (p2.item) and padre (n.id) are returned with them
Combinar(st) ==
    Sea(heappop(st.mem, st.heap), LAMBDA p1 :
    Sea(heappop(st.mem, p1.heap), LAMBDA p2 :
    Sea(Nuevo(st.mem, st.arena,
              NodoHuffman(SinCaracter,
                  st.mem[p1.item].frecuencia + st.mem[p2.item].frecuencia,
                  p1.item, p2.item)), LAMBDA n :
        [mem |-> n.mem, arena |-> st.arena, heap |-> heappush(n.mem, p2.heap, n.id),
         izquierdo |-> p1.item, derecho |-> p2.item, padre |-> n.id])))

\* as CondicionBucle, leaving the loop with two nodes in the heap
CondicionBucleDos(heap) == Len(heap) > 2

\* while len(heap) > 1
CondicionBucle(heap) == Len(heap) > 1

RECURSIVE Bucle(_)
Bucle(st) == IF CondicionBucle(st.heap) THEN Bucle(Combinar(st)) ELSE st

\* construir_desde_frecuencias past the check of the empty table
ConstruirNoVacio(m, frecuencias) ==
    IF Len(frecuencias) = 1
    THEN LET n == Nuevo(m, ArenaLibre(m),
                        NodoHuffman(frecuencias[1][1], frecuencias[1][2], None, None))
         IN [error |-> SinError, mem |-> n.mem, raiz |-> n.id]
    ELSE LET st == Bucle(InsertarHojas([mem |-> m, arena |-> ArenaLibre(m), heap |-> <<>>],
                                       frecuencias, 1))
         IN [error |-> SinError, mem |-> st.mem, raiz |-> st.heap[1]]

\* as construir_desde_frecuencias, with self.raiz cleared before the table is checked
construir_desde_frecuencias_limpia_raiz(m, raiz, frecuencias) ==
    IF frecuencias = <<>>
    THEN [error |-> "ValueError", mem |-> m, raiz |-> None]
    ELSE ConstruirNoVacio(m, frecuencias)

\* returns the store, the new value of self.raiz and the exception raised, if any
construir_desde_frecuencias(m, raiz, frecuencias) ==
    IF frecuencias = <<>>
    THEN [error |-> "ValueError", mem |-> m, raiz |-> raiz]
    ELSE ConstruirNoVacio(m, frecuencias)

\* as generar_codigos_recursivo, with "0" appended on both branches
RECURSIVE generar_codigos_recursivo_mismo_digito(_, _, _, _)
generar_codigos_recursivo_mismo_digito(m, nodo, codigo, codigos) ==
    IF es_hoja(m[nodo]) THEN Put(codigos, m[nodo].caracter, codigo)
    ELSE LET c1 == IF m[nodo].izquierdo # None
                   THEN generar_codigos_recursivo_mismo_digito(
                            m, m[nodo].izquierdo, Append(codigo, "0"), codigos)
                   ELSE codigos
         IN IF m[nodo].derecho # None
            THEN generar_codigos_recursivo_mismo_digito(
                     m, m[nodo].derecho, Append(codigo, "0"), c1)
            ELSE c1

RECURSIVE generar_codigos_recursivo(_, _, _, _)
generar_codigos_recursivo(m, nodo, codigo, codigos) ==
    IF es_hoja(m[nodo]) THEN Put(codigos, m[nodo].caracter, codigo)
    ELSE LET c1 == IF m[nodo].izquierdo # None
                   THEN generar_codigos_recursivo(m, m[nodo].izquierdo, Append(codigo, "0"), codigos)
                   ELSE codigos
         IN IF m[nodo].derecho # None
            THEN generar_codigos_recursivo(m, m[nodo].derecho, Append(codigo, "1"), c1)
            ELSE c1

\* as generar_codigos, without self.codigos = {}: the codes are added to the old dict
generar_codigos_sin_reinicio(m, raiz, codigos) ==
    IF raiz = None
    THEN [codigos |-> codigos, ret |-> <<>>, reasignado |-> FALSE, codigos_antes |-> codigos]
    ELSE LET c == IF es_hoja(m[raiz]) THEN Put(codigos, m[raiz].caracter, <<"0">>)
                  ELSE generar_codigos_recursivo(m, raiz, <<>>, codigos)
         IN [codigos |-> c, ret |-> c, reasignado |-> FALSE, codigos_antes |-> c]

\* as generar_codigos, without the special case of a root that is a leaf
generar_codigos_sin_caso_hoja(m, raiz, codigos) ==
    IF raiz = None
    THEN [codigos |-> codigos, ret |-> <<>>, reasignado |-> FALSE, codigos_antes |-> codigos]
    ELSE LET c == generar_codigos_recursivo(m, raiz, <<>>, <<>>)
         IN [codigos |-> c, ret |-> c, reasignado |-> TRUE, codigos_antes |-> codigos]

\* returns the new value of self.codigos and the dict returned.  codigos is the
\* dict self.codigos refers to when the method is entered: reasignado tells whether
\* self.codigos is bound to a new dict, codigos_antes what the dict of before
\* holds when the method returns (a caller may still hold a reference to it)
generar_codigos(m, raiz, codigos) ==
    IF raiz = None
    THEN [codigos |-> codigos, ret |-> <<>>, reasignado |-> FALSE, codigos_antes |-> codigos]
    ELSE LET c == IF es_hoja(m[raiz]) THEN Put(<<>>, m[raiz].caracter, <<"0">>)
                  ELSE generar_codigos_recursivo(m, raiz, <<>>, <<>>)
         IN [codigos |-> c, ret |-> c, reasignado |-> TRUE, codigos_antes |-> codigos]

Max(a, b) == IF a > b THEN a ELSE b

\* as calcular_altura, following the left subtree only
RECURSIVE calcular_altura_izquierda(_, _)
calcular_altura_izquierda(m, nodo) ==
    IF nodo = None \/ es_hoja(m[nodo]) THEN 0
    ELSE 1 + (IF m[nodo].izquierdo # None
              THEN calcular_altura_izquierda(m, m[nodo].izquierdo) ELSE 0)

RECURSIVE calcular_altura(_, _)
calcular_altura(m, nodo) ==
    IF nodo = None \/ es_hoja(m[nodo]) THEN 0
    ELSE 1 + Max(IF m[nodo].izquierdo # None THEN calcular_altura(m, m[nodo].izquierdo) ELSE 0,
                 IF m[nodo].derecho # None THEN calcular_altura(m, m[nodo].derecho) ELSE 0)

\* as contar_hojas, counting the internal nodes as well
RECURSIVE contar_hojas_cuenta_internos(_, _)
contar_hojas_cuenta_internos(m, nodo) ==
    IF nodo = None THEN 0
    ELSE IF es_hoja(m[nodo]) THEN 1
    ELSE 1 + contar_hojas_cuenta_internos(m, m[nodo].izquierdo)
           + contar_hojas_cuenta_internos(m, m[nodo].derecho)

RECURSIVE contar_hojas(_, _)
contar_hojas(m, nodo) ==
    IF nodo = None THEN 0
    ELSE IF es_hoja(m[nodo]) THEN 1
    ELSE contar_hojas(m, m[nodo].izquierdo) + contar_hojas(m, m[nodo].derecho)

RECURSIVE contar_nodos_internos(_, _)
contar_nodos_internos(m, nodo) ==
    IF nodo = None \/ es_hoja(m[nodo]) THEN 0
    ELSE 1 + contar_nodos_internos(m, m[nodo].izquierdo)
           + contar_nodos_internos(m, m[nodo].derecho)

RECURSIVE SumaLongitudes(_, _)
SumaLongitudes(codigos, claves) ==
    IF claves = {} THEN 0
    ELSE LET k == CHOOSE x \in claves : TRUE
         IN Len(codigos[k]) + SumaLongitudes(codigos, claves \ {k})

calcular_longitud_promedio(codigos) ==
    IF DOMAIN codigos = {} THEN Cero
    ELSE Frac(SumaLongitudes(codigos, DOMAIN codigos), Cardinality(DOMAIN codigos))

obtener_estadisticas(m, raiz, codigos) ==
    IF raiz = None THEN <<>>
    ELSE [altura |-> calcular_altura(m, raiz),
          num_hojas |-> contar_hojas(m, raiz),
          num_nodos_internos |-> contar_nodos_internos(m, raiz),
          longitud_promedio_codigo |-> calcular_longitud_promedio(codigos)]

\* ------------------------------------------------------- CompresorHuffman
\* as Counter, with a character seen again leaving its entry as it is
RECURSIVE CounterSinIncremento(_, _)
CounterSinIncremento(texto, tabla) ==
    IF texto = <<>> THEN tabla
    ELSE LET c == Head(texto)
             donde == {i \in 1..Len(tabla) : tabla[i][1] = c}
         IN CounterSinIncremento(Tail(texto),
                                 IF donde = {} THEN Append(tabla, <<c, 1>>) ELSE tabla)

\* Counter(texto): one entry per character, in order of first occurrence
RECURSIVE Counter(_, _)
Counter(texto, tabla) ==
    IF texto = <<>> THEN tabla
    ELSE LET c == Head(texto)
             donde == {i \in 1..Len(tabla) : tabla[i][1] = c}
         IN Counter(Tail(texto),
                    IF donde = {} THEN Append(tabla, <<c, 1>>)
                    ELSE [i \in 1..Len(tabla) |->
                            IF i \in donde THEN <<c, tabla[i][2] + 1>> ELSE tabla[i]])

calcular_frecuencias(texto) == IF texto = <<>> THEN <<>> ELSE Counter(texto, <<>>)

\* as Join, with codigos.get(caracter, ''): a character without a code is skipped
RECURSIVE JoinGet(_, _, _)
JoinGet(texto, codigos, acc) ==
    IF texto = <<>> THEN [error |-> SinError, ret |-> acc]
    ELSE JoinGet(Tail(texto), codigos,
                 IF Head(texto) \in DOMAIN codigos THEN acc \o codigos[Head(texto)] ELSE acc)

codificar_texto_get(texto, codigos) == JoinGet(texto, codigos, <<>>)

\* as codificar_texto, with each code put before the codes of the characters before
RECURSIVE JoinInverso(_, _, _)
JoinInverso(texto, codigos, acc) ==
    IF texto = <<>> THEN [error |-> SinError, ret |-> acc]
    ELSE IF Head(texto) \notin DOMAIN codigos THEN [error |-> "KeyError", ret |-> <<>>]
    ELSE JoinInverso(Tail(texto), codigos, codigos[Head(texto)] \o acc)

codificar_texto_inverso(texto, codigos) == JoinInverso(texto, codigos, <<>>)

\* ''.join(codigos[caracter] for caracter in texto): KeyError at the first
\* character without a code, and then nothing is returned
RECURSIVE Join(_, _, _)
Join(texto, codigos, acc) ==
    IF texto = <<>> THEN [error |-> SinError, ret |-> acc]
    ELSE IF Head(texto) \notin DOMAIN codigos THEN [error |-> "KeyError", ret |-> <<>>]
    ELSE Join(Tail(texto), codigos, acc \o codigos[Head(texto)])

codificar_texto(texto, codigos) == Join(texto, codigos, <<>>)

\* as generar_estadisticas, counting one bit per character of the original text
generar_estadisticas_un_bit(texto_original, texto_codificado, tiempo_procesamiento) ==
    IF texto_original = <<>>
    THEN [longitud_original |-> 0, longitud_comprimida |-> 0,
          bits_originales |-> 0, bits_comprimidos |-> 0,
          tasa_compresion |-> Cero, factor_compresion |-> Cero,
          bits_ahorrados |-> 0, tiempo_compresion |-> tiempo_procesamiento]
    ELSE LET longitud_original == Len(texto_original)
             longitud_comprimida == Len(texto_codificado)
             bits_originales == longitud_original
             bits_comprimidos == longitud_comprimida
             bits_ahorrados == bits_originales - bits_comprimidos
         IN [longitud_original |-> longitud_original,
             longitud_comprimida |-> longitud_comprimida,
             bits_originales |-> bits_originales,
             bits_comprimidos |-> bits_comprimidos,
             tasa_compresion |-> IF bits_originales > 0
                                 THEN Frac(bits_ahorrados * 100, bits_originales) ELSE Cero,
             factor_compresion |-> IF bits_comprimidos > 0
                                   THEN Frac(bits_originales, bits_comprimidos) ELSE Cero,
             bits_ahorrados |-> bits_ahorrados,
             tiempo_compresion |-> tiempo_procesamiento]

\* as generar_estadisticas, with bits_ahorrados never below zero
generar_estadisticas_acotado(texto_original, texto_codificado, tiempo_procesamiento) ==
    IF texto_original = <<>>
    THEN [longitud_original |-> 0, longitud_comprimida |-> 0,
          bits_originales |-> 0, bits_comprimidos |-> 0,
          tasa_compresion |-> Cero, factor_compresion |-> Cero,
          bits_ahorrados |-> 0, tiempo_compresion |-> tiempo_procesamiento]
    ELSE LET longitud_original == Len(texto_original)
             longitud_comprimida == Len(texto_codificado)
             bits_originales == longitud_original * 8
             bits_comprimidos == longitud_comprimida
             bits_ahorrados == Max(0, bits_originales - bits_comprimidos)
         IN [longitud_original |-> longitud_original,
             longitud_comprimida |-> longitud_comprimida,
             bits_originales |-> bits_originales,
             bits_comprimidos |-> bits_comprimidos,
             tasa_compresion |-> IF bits_originales > 0
                                 THEN Frac(bits_ahorrados * 100, bits_originales) ELSE Cero,
             factor_compresion |-> IF bits_comprimidos > 0
                                   THEN Frac(bits_originales, bits_comprimidos) ELSE Cero,
             bits_ahorrados |-> bits_ahorrados,
             tiempo_compresion |-> tiempo_procesamiento]

generar_estadisticas(texto_original, texto_codificado, tiempo_procesamiento) ==
    IF texto_original = <<>>
    THEN [longitud_original |-> 0, longitud_comprimida |-> 0,
          bits_originales |-> 0, bits_comprimidos |-> 0,
          tasa_compresion |-> Cero, factor_compresion |-> Cero,
          bits_ahorrados |-> 0, tiempo_compresion |-> tiempo_procesamiento]
    ELSE LET longitud_original == Len(texto_original)
             longitud_comprimida == Len(texto_codificado)
             bits_originales == longitud_original * 8
             bits_comprimidos == longitud_comprimida
             bits_ahorrados == bits_originales - bits_comprimidos
         IN [longitud_original |-> longitud_original,
             longitud_comprimida |-> longitud_comprimida,
             bits_originales |-> bits_originales,
             bits_comprimidos |-> bits_comprimidos,
             tasa_compresion |-> IF bits_originales > 0
                                 THEN Frac(bits_ahorrados * 100, bits_originales) ELSE Cero,
             factor_compresion |-> IF bits_comprimidos > 0
                                   THEN Frac(bits_originales, bits_comprimidos) ELSE Cero,
             bits_ahorrados |-> bits_ahorrados,
             tiempo_compresion |-> tiempo_procesamiento]

\* comprimir from self.estadisticas = estadisticas on: the object after the call
\* and the tuple returned.  a, g and t are the results of pasos 2, 3 and 4
ComprimirFin(c, a, g, t, e) ==
    [c |-> [mem |-> a.mem, raiz |-> a.raiz, codigos |-> g.codigos, estadisticas |-> e],
     error |-> SinError,
     ret |-> [texto_codificado |-> t.ret, codigos |-> g.ret,
              raiz |-> a.raiz, estadisticas |-> e],
     reasignado |-> g.reasignado, codigos_antes |-> g.codigos_antes]

\* comprimir after paso 4: the statistics, unless _codificar_texto raised
ComprimirEstadisticas(c, texto, tiempo, a, g, t) ==
    IF t.error # SinError
    THEN [c |-> [mem |-> a.mem, raiz |-> a.raiz, codigos |-> g.codigos,
                 estadisticas |-> c.estadisticas],
          error |-> t.error, ret |-> <<>>,
          reasignado |-> g.reasignado, codigos_antes |-> g.codigos_antes]
    ELSE ComprimirFin(c, a, g, t,
                      Update(generar_estadisticas(texto, t.ret, tiempo),
                             obtener_estadisticas(a.mem, a.raiz, g.codigos)))

\* comprimir after paso 3: paso 4, the text encoded with the codes returned
ComprimirPaso4(c, texto, tiempo, a, g) ==
    ComprimirEstadisticas(c, texto, tiempo, a, g, codificar_texto(texto, g.ret))

\* comprimir after paso 2: paso 3, the codes, unless construir_desde_frecuencias raised
ComprimirPaso3(c, texto, tiempo, a) ==
    IF a.error # SinError
    THEN [c |-> c, error |-> a.error, ret |-> <<>>,
          reasignado |-> FALSE, codigos_antes |-> c.codigos]
    ELSE ComprimirPaso4(c, texto, tiempo, a, generar_codigos(a.mem, a.raiz, c.codigos))

\* comprimir past the test of the empty text: pasos 1 and 2, the table and the tree
ComprimirPasos(c, texto, tiempo) ==
    ComprimirPaso3(c, texto, tiempo,
                   construir_desde_frecuencias(c.mem, c.raiz, calcular_frecuencias(texto)))

\* as comprimir, without the early return on the empty text
comprimir_sin_caso_vacio(c, texto, tiempo) == ComprimirPasos(c, texto, tiempo)

\* c is the compressor object: [mem, raiz, codigos, estadisticas], raiz and codigos
\* being the fields of self.arbol.  Returns the object after the call, the value
\* returned and the exception raised, if any; reasignado and codigos_antes are
\* those of generar_codigos when the call reaches it.
comprimir(c, texto, tiempo) ==
    IF texto = <<>>
    THEN [c |-> c, error |-> SinError,
          ret |-> [texto_codificado |-> <<>>, codigos |-> <<>>, raiz |-> None,
                   estadisticas |-> generar_estadisticas(texto, <<>>, 0)],
          reasignado |-> FALSE, codigos_antes |-> c.codigos]
    ELSE ComprimirPasos(c, texto, tiempo)

\* as PasoDecodificar, without nodo_actual = raiz after a leaf
PasoDecodificarSinReinicio(m, raiz, st, bit) ==
    LET sig == IF bit = "0" THEN m[st.nodo_actual].izquierdo ELSE m[st.nodo_actual].derecho
    IN IF sig = None
       THEN [st EXCEPT !.nodo_actual = None, !.error = "AttributeError"]
       ELSE IF es_hoja(m[sig])
       THEN [st EXCEPT !.nodo_actual = sig,
                       !.texto_decodificado = Append(st.texto_decodificado, m[sig].caracter)]
       ELSE [st EXCEPT !.nodo_actual = sig]

\* as PasoDecodificar, with nothing added to the text when a leaf is reached
PasoDecodificarSinEmitir(m, raiz, st, bit) ==
    LET sig == IF bit = "0" THEN m[st.nodo_actual].izquierdo ELSE m[st.nodo_actual].derecho
    IN IF sig = None
       THEN [st EXCEPT !.nodo_actual = None, !.error = "AttributeError"]
       ELSE IF es_hoja(m[sig])
       THEN [st EXCEPT !.nodo_actual = raiz]
       ELSE [st EXCEPT !.nodo_actual = sig]

\* as PasoDecodificar, with the digit "0" leading to the right child
PasoDecodificarCruzado(m, raiz, st, bit) ==
    LET sig == IF bit = "0" THEN m[st.nodo_actual].derecho ELSE m[st.nodo_actual].izquierdo
    IN IF sig = None
       THEN [st EXCEPT !.nodo_actual = None, !.error = "AttributeError"]
       ELSE IF es_hoja(m[sig])
       THEN [st EXCEPT !.nodo_actual = raiz,
                       !.texto_decodificado = Append(st.texto_decodificado, m[sig].caracter)]
       ELSE [st EXCEPT !.nodo_actual = sig]

\* one iteration of the decoding loop; st = [nodo_actual, texto_decodificado, error]
PasoDecodificar(m, raiz, st, bit) ==
    LET sig == IF bit = "0" THEN m[st.nodo_actual].izquierdo ELSE m[st.nodo_actual].derecho
    IN IF sig = None
       THEN [st EXCEPT !.nodo_actual = None, !.error = "AttributeError"]
       ELSE IF es_hoja(m[sig])
       THEN [st EXCEPT !.nodo_actual = raiz,
                       !.texto_decodificado = Append(st.texto_decodificado, m[sig].caracter)]
       ELSE [st EXCEPT !.nodo_actual = sig]

RECURSIVE Decodificar(_, _, _, _)
Decodificar(m, raiz, bits, st) ==
    IF bits = <<>> \/ st.error # SinError THEN st
    ELSE Decodificar(m, raiz, Tail(bits), PasoDecodificar(m, raiz, st, Head(bits)))

\* as DescomprimirCuerpo, with a symbol for every digit "0" only when the root is a leaf
DescomprimirCuerpoSoloCeros(m, texto_codificado, raiz, tiempo) ==
    IF raiz = None
    THEN [error |-> "AttributeError", nodo_actual |-> None, ret |-> <<>>]
    ELSE LET ini == [nodo_actual |-> raiz, texto_decodificado |-> <<>>, error |-> SinError]
             st == IF es_hoja(m[raiz])
                   THEN [ini EXCEPT !.texto_decodificado =
                            Repetir(m[raiz].caracter,
                                    Cardinality({i \in 1..Len(texto_codificado) :
                                                    texto_codificado[i] = "0"}))]
                   ELSE Decodificar(m, raiz, texto_codificado, ini)
         IN IF st.error # SinError
            THEN [error |-> st.error, nodo_actual |-> st.nodo_actual, ret |-> <<>>]
            ELSE [error |-> SinError, nodo_actual |-> st.nodo_actual,
                  ret |-> [texto_decodificado |-> st.texto_decodificado,
                           estadisticas |-> [tiempo_descompresion |-> tiempo,
                                             longitud_decodificada |-> Len(st.texto_decodificado),
                                             exito |-> TRUE]]]

\* descomprimir past the test of its arguments.  Returns the value returned, the
\* exception raised, if any, and the local nodo_actual when the function is left
DescomprimirCuerpo(m, texto_codificado, raiz, tiempo) ==
    IF raiz = None    \* raiz.es_hoja() on None
    THEN [error |-> "AttributeError", nodo_actual |-> None, ret |-> <<>>]
    ELSE LET ini == [nodo_actual |-> raiz, texto_decodificado |-> <<>>, error |-> SinError]
             st == IF es_hoja(m[raiz])
                   THEN [ini EXCEPT !.texto_decodificado =
                                       Repetir(m[raiz].caracter, Len(texto_codificado))]
                   ELSE Decodificar(m, raiz, texto_codificado, ini)
         IN IF st.error # SinError
            THEN [error |-> st.error, nodo_actual |-> st.nodo_actual, ret |-> <<>>]
            ELSE [error |-> SinError, nodo_actual |-> st.nodo_actual,
                  ret |-> [texto_decodificado |-> st.texto_decodificado,
                           estadisticas |-> [tiempo_descompresion |-> tiempo,
                                             longitud_decodificada |-> Len(st.texto_decodificado),
                                             exito |-> TRUE]]]

DescomprimirVacio ==
    [error |-> SinError, nodo_actual |-> None,
     ret |-> [texto_decodificado |-> <<>>,
              estadisticas |-> [tiempo_descompresion |-> 0, exito |-> FALSE]]]

\* as descomprimir, with "and" for "or" in the test of the arguments
descomprimir_and(m, texto_codificado, raiz, tiempo) ==
    IF texto_codificado = <<>> /\ raiz = None
    THEN DescomprimirVacio
    ELSE DescomprimirCuerpo(m, texto_codificado, raiz, tiempo)

descomprimir(m, texto_codificado, raiz, tiempo) ==
    IF texto_codificado = <<>> \/ raiz = None
    THEN DescomprimirVacio
    ELSE DescomprimirCuerpo(m, texto_codificado, raiz, tiempo)

\* ------------------------------------------------------- state
VARIABLES
    mem,            \* the NodoHuffman objects alive
    arbol_raiz,     \* self.arbol.raiz
    arbol_codigos,  \* self.arbol.codigos
    estadisticas,   \* self.estadisticas
    llamada,        \* the last call made by the caller and its arguments
    ret,            \* what that call returned (<<>> if it raised)
    error,          \* the exception that call raised (SinError if none)
    guardado,       \* the caller's copy of the last comprimir result, with its input
    hilos,          \* per thread inside comprimir: its position and its local variables
    local           \* the position and the local variables of a call followed step by step

vars == <<mem, arbol_raiz, arbol_codigos, estadisticas, llamada, ret, error, guardado, hilos,
          local>>

Hilos == {1, 2}
HiloLibre == [pc |-> "libre", texto |-> <<>>, codigos |-> <<>>, texto_codificado |-> <<>>,
              ret |-> <<>>, error |-> SinError]

\* no call is followed step by step
Libre == [pc |-> "libre"]

Compresor == [mem |-> mem, raiz |-> arbol_raiz, codigos |-> arbol_codigos,
              estadisticas |-> estadisticas]

\* CompresorHuffman() right after construction
CompresorNuevo == [mem |-> <<>>, raiz |-> None, codigos |-> <<>>, estadisticas |-> <<>>]

Init ==
    /\ mem = CompresorNuevo.mem
    /\ arbol_raiz = CompresorNuevo.raiz
    /\ arbol_codigos = CompresorNuevo.codigos
    /\ estadisticas = CompresorNuevo.estadisticas
    /\ llamada = [op |-> "init"]
    /\ ret = <<>>
    /\ error = SinError
    /\ guardado = <<>>
    /\ hilos = [h \in Hilos |-> HiloLibre]
    /\ local = Libre

\* the references the program still holds after a call
Raices(raiz, g) == {raiz} \cup (IF g = <<>> THEN {} ELSE {g.raiz})

\* compresor.comprimir(texto); the caller keeps the result.  alias tells whether
\* the codebook kept is the very dict self.arbol.codigos refers to: comprimir
\* returns that dict for a non-empty text and a dict of its own for the empty text
Comprimir(texto, tiempo) ==
    \E r \in {comprimir(Compresor, texto, tiempo)} :
    LET g == IF r.error = SinError
             THEN [texto |-> texto, alias |-> (texto # <<>>)] @@ r.ret ELSE guardado
    IN /\ mem' = Recolectar(r.c.mem, Raices(r.c.raiz, g))
       /\ arbol_raiz' = r.c.raiz
       /\ arbol_codigos' = r.c.codigos
       /\ estadisticas' = r.c.estadisticas
       /\ llamada' = [op |-> "comprimir", texto |-> texto]
       /\ ret' = r.ret
       /\ error' = r.error
       /\ guardado' = g
       /\ UNCHANGED <<hilos, local>>

\* compresor.descomprimir(texto_codificado, raiz) on the result the caller kept
DescomprimirGuardado(tiempo) ==
    /\ guardado # <<>>
    /\ \E r \in {descomprimir(mem, guardado.texto_codificado, guardado.raiz, tiempo)} :
          /\ llamada' = [op |-> "descomprimir", texto_codificado |-> guardado.texto_codificado,
                         raiz |-> guardado.raiz, nodo_actual |-> r.nodo_actual]
          /\ ret' = r.ret
          /\ error' = r.error
    /\ UNCHANGED <<mem, arbol_raiz, arbol_codigos, estadisticas, guardado, hilos, local>>

Next ==
    \/ \E texto \in Textos, tiempo \in Tiempos : Comprimir(texto, tiempo)
    \/ \E tiempo \in Tiempos : DescomprimirGuardado(tiempo)

Spec == Init /\ [][Next]_vars

\* ---- a caller that compresses one text and then decodes digit sequences
ComprimirPrimero(texto, tiempo) == llamada.op = "init" /\ Comprimir(texto, tiempo)

\* as Descomprimir, with self.estadisticas = estadisticas before the return
DescomprimirGuardaEstadisticas(texto_codificado, raiz, tiempo) ==
    /\ guardado # <<>>
    /\ raiz \in {None, guardado.raiz}
    /\ \E r \in {descomprimir(mem, texto_codificado, raiz, tiempo)} :
          /\ llamada' = [op |-> "descomprimir", texto_codificado |-> texto_codificado,
                         raiz |-> raiz, nodo_actual |-> r.nodo_actual]
          /\ ret' = r.ret
          /\ error' = r.error
          /\ estadisticas' = IF r.error = SinError THEN r.ret.estadisticas ELSE estadisticas
    /\ UNCHANGED <<mem, arbol_raiz, arbol_codigos, guardado, hilos, local>>

\* compresor.descomprimir(texto_codificado, raiz), raiz being None or the tree kept
Descomprimir(texto_codificado, raiz, tiempo) ==
    /\ guardado # <<>>
    /\ raiz \in {None, guardado.raiz}
    /\ \E r \in {descomprimir(mem, texto_codificado, raiz, tiempo)} :
          /\ llamada' = [op |-> "descomprimir", texto_codificado |-> texto_codificado,
                         raiz |-> raiz, nodo_actual |-> r.nodo_actual]
          /\ ret' = r.ret
          /\ error' = r.error
    /\ UNCHANGED <<mem, arbol_raiz, arbol_codigos, estadisticas, guardado, hilos, local>>

NextDeco ==
    \/ \E texto \in Textos, tiempo \in Tiempos : ComprimirPrimero(texto, tiempo)
    \/ \E texto_codificado \in Cadenas, raiz \in DOMAIN mem \cup {None}, tiempo \in Tiempos :
          Descomprimir(texto_codificado, raiz, tiempo)

SpecDeco == Init /\ [][NextDeco]_vars

\* ---- a caller that compresses one text and then encodes texts with the codebook
\* it got: compresor._codificar_texto(texto, codigos)
CodificarTexto(texto) ==
    /\ guardado # <<>>
    /\ \E r \in {codificar_texto(texto, guardado.codigos)} :
          /\ llamada' = [op |-> "codificar_texto", texto |-> texto,
                         codigos |-> guardado.codigos]
          /\ ret' = r.ret
          /\ error' = r.error
    /\ UNCHANGED <<mem, arbol_raiz, arbol_codigos, estadisticas, guardado, hilos, local>>

NextCodificar ==
    \/ \E texto \in Textos, tiempo \in Tiempos : ComprimirPrimero(texto, tiempo)
    \/ \E texto \in Textos : CodificarTexto(texto)

SpecCodificar == Init /\ [][NextCodificar]_vars

\* ---- a caller that compresses one text and then decodes, with the tree it got,
\* texts that it encodes with the codebook it got:
\* compresor.descomprimir(compresor._codificar_texto(texto, codigos), raiz)
DescomprimirCodificado(texto, tiempo) ==
    /\ guardado # <<>>
    /\ \E t \in {codificar_texto(texto, guardado.codigos)} :
          IF t.error # SinError
          THEN /\ llamada' = [op |-> "codificar_texto", texto |-> texto,
                              codigos |-> guardado.codigos]
               /\ ret' = t.ret
               /\ error' = t.error
          ELSE \E r \in {descomprimir(mem, t.ret, guardado.raiz, tiempo)} :
               /\ llamada' = [op |-> "descomprimir", texto |-> texto,
                              texto_codificado |-> t.ret, raiz |-> guardado.raiz,
                              nodo_actual |-> r.nodo_actual]
               /\ ret' = r.ret
               /\ error' = r.error
    /\ UNCHANGED <<mem, arbol_raiz, arbol_codigos, estadisticas, guardado, hilos, local>>

\* the clock, which only reaches the times reported, reads 0 in every call
NextCodificado ==
    \/ \E texto \in Textos : ComprimirPrimero(texto, 0)
    \/ \E texto \in Textos : DescomprimirCodificado(texto, 0)

SpecCodificado == Init /\ [][NextCodificado]_vars

\* ---- a caller that keeps the result of its first comprimir call while it goes
\* on calling comprimir, and decodes the result it kept.
\* compresor.comprimir(texto) with the first result kept: the nodes of its tree
\* stay alive, and as long as its codebook is the dict self.arbol.codigos refers
\* to, what the call does to that dict is done to the codebook kept
ComprimirOtro(texto, tiempo) ==
    /\ guardado # <<>>
    /\ \E r \in {comprimir(Compresor, texto, tiempo)} :
          /\ mem' = Recolectar(r.c.mem, Raices(r.c.raiz, guardado))
          /\ arbol_raiz' = r.c.raiz
          /\ arbol_codigos' = r.c.codigos
          /\ estadisticas' = r.c.estadisticas
          /\ llamada' = [op |-> "comprimir", texto |-> texto]
          /\ ret' = r.ret
          /\ error' = r.error
          /\ guardado' = IF guardado.alias
                         THEN [guardado EXCEPT !.codigos = r.codigos_antes,
                                               !.alias = ~r.reasignado]
                         ELSE guardado
    /\ UNCHANGED <<hilos, local>>

\* the texts of the later calls are shorter than the longest first text, and the
\* clock, which only reaches tiempo_compresion, reads 0 in every call
TextosOtros == Seqs(Symbols, MaxLen - 1)

NextSucesivas ==
    \/ \E texto \in Textos : ComprimirPrimero(texto, 0)
    \/ \E texto \in TextosOtros : ComprimirOtro(texto, 0)
    \/ DescomprimirGuardado(0)

SpecSucesivas == Init /\ [][NextSucesivas]_vars

\* ---- a caller that compresses one text and then asks for frequency tables, as
\* the interfaces do to display them: compresor.calcular_frecuencias(texto)
CalcularFrecuencias(texto) ==
    /\ guardado # <<>>
    /\ llamada' = [op |-> "calcular_frecuencias", texto |-> texto]
    /\ ret' = calcular_frecuencias(texto)
    /\ error' = SinError
    /\ UNCHANGED <<mem, arbol_raiz, arbol_codigos, estadisticas, guardado, hilos, local>>

NextFrecuencias ==
    \/ \E texto \in Textos, tiempo \in Tiempos : ComprimirPrimero(texto, tiempo)
    \/ \E texto \in Textos : CalcularFrecuencias(texto)

SpecFrecuencias == Init /\ [][NextFrecuencias]_vars

\* ---- a caller that compresses one text and then asks once for the statistics of
\* a text and a digit string of its own:
\* compresor._generar_estadisticas(texto_original, texto_codificado, tiempo).
\* The digit strings go beyond 8 digits per character, which comprimir gives only
\* to texts of more distinct symbols than Symbols holds; the clock reads 0.
MaxDigitos == 9
CadenasLargas == Cadenas \cup {Repetir(b, n) : b \in Digitos, n \in 0..MaxDigitos}

GenerarEstadisticas(texto_original, texto_codificado, tiempo_procesamiento) ==
    /\ llamada.op = "comprimir"
    /\ llamada' = [op |-> "generar_estadisticas", texto_original |-> texto_original,
                   texto_codificado |-> texto_codificado]
    /\ ret' = generar_estadisticas(texto_original, texto_codificado, tiempo_procesamiento)
    /\ error' = SinError
    /\ UNCHANGED <<mem, arbol_raiz, arbol_codigos, estadisticas, guardado, hilos, local>>

NextEstadisticas ==
    \/ \E texto \in Textos : ComprimirPrimero(texto, 0)
    \/ \E texto_original \in TextosOtros, texto_codificado \in CadenasLargas :
          GenerarEstadisticas(texto_original, texto_codificado, 0)

SpecEstadisticas == Init /\ [][NextEstadisticas]_vars

\* ---- an ArbolHuffman used on its own
Tablas == {calcular_frecuencias(t) : t \in Textos}

\* arbol.construir_desde_frecuencias(frecuencias)
ConstruirDesdeFrecuencias(frecuencias) ==
    \E r \in {construir_desde_frecuencias(mem, arbol_raiz, frecuencias)} :
        /\ mem' = Recolectar(r.mem, {r.raiz})
        /\ arbol_raiz' = r.raiz
        /\ llamada' = [op |-> "construir_desde_frecuencias", frecuencias |-> frecuencias]
        /\ ret' = <<>>
        /\ error' = r.error
        /\ UNCHANGED <<arbol_codigos, estadisticas, guardado, hilos, local>>

\* arbol.generar_codigos()
GenerarCodigos ==
    \E r \in {generar_codigos(mem, arbol_raiz, arbol_codigos)} :
        /\ arbol_codigos' = r.codigos
        /\ llamada' = [op |-> "generar_codigos"]
        /\ ret' = r.ret
        /\ error' = SinError
        /\ UNCHANGED <<mem, arbol_raiz, estadisticas, guardado, hilos, local>>

NextArbol ==
    \/ \E frecuencias \in Tablas : ConstruirDesdeFrecuencias(frecuencias)
    \/ GenerarCodigos

SpecArbol == Init /\ [][NextArbol]_vars

\* arbol.obtener_estadisticas()
ObtenerEstadisticas ==
    /\ llamada' = [op |-> "obtener_estadisticas"]
    /\ ret' = obtener_estadisticas(mem, arbol_raiz, arbol_codigos)
    /\ error' = SinError
    /\ UNCHANGED <<mem, arbol_raiz, arbol_codigos, estadisticas, guardado, hilos, local>>

\* ---- an ArbolHuffman used on its own whose statistics are asked for between
\* the calls that build trees and generate codes
NextMetricas ==
    \/ \E frecuencias \in Tablas : ConstruirDesdeFrecuencias(frecuencias)
    \/ GenerarCodigos
    \/ ObtenerEstadisticas

SpecMetricas == Init /\ [][NextMetricas]_vars

\* ---- an ArbolHuffman that is given one table, a dict of the caller: up to
\* Cardinality(SimbolosTabla) distinct symbols in any order of insertion, each with
\* a count from 1 to MaxFrecTabla; its codes and its statistics are then asked for
MaxFrecTabla == 3
OrdenesTabla ==
    {s \in Seqs(SimbolosTabla, Cardinality(SimbolosTabla)) :
        \A i, j \in 1..Len(s) : i # j => s[i] # s[j]}
TablasAmplias ==
    UNION {{[i \in 1..Len(s) |-> <<s[i], f[i]>>] : f \in [1..Len(s) -> 1..MaxFrecTabla]}
           : s \in OrdenesTabla}

\* arbol.construir_desde_frecuencias(frecuencias) on an ArbolHuffman without a tree
ConstruirPrimero(frecuencias) ==
    arbol_raiz = None /\ ConstruirDesdeFrecuencias(frecuencias)

NextTablas ==
    \/ \E frecuencias \in TablasAmplias : ConstruirPrimero(frecuencias)
    \/ GenerarCodigos
    \/ ObtenerEstadisticas

SpecTablas == Init /\ [][NextTablas]_vars

\* ---- two threads calling comprimir on one compressor, without a lock.  A thread
\* can be preempted between the statements of comprimir: after the tree is built
\* (pasos 1 and 2), after the codes are generated (paso 3), after the text is
\* encoded (paso 4), before the statistics are collected and the result returned.
RaicesHilos(raiz, hs) ==
    {raiz} \cup {hs[h].ret.raiz : h \in {x \in Hilos : hs[x].ret # <<>>}}

\* thread h enters comprimir(texto); the empty text returns at once
Llamar(h, texto) ==
    /\ hilos[h].pc = "libre"
    /\ hilos' = [hilos EXCEPT ![h] =
          IF texto = <<>>
          THEN [HiloLibre EXCEPT !.pc = "fin",
                   !.ret = [texto_codificado |-> <<>>, codigos |-> <<>>, raiz |-> None,
                            estadisticas |-> generar_estadisticas(texto, <<>>, 0)]]
          ELSE [HiloLibre EXCEPT !.pc = "construir", !.texto = texto]]
    /\ UNCHANGED <<mem, arbol_raiz, arbol_codigos, estadisticas, llamada, ret, error, guardado, local>>

\* frecuencias = self.calcular_frecuencias(texto)
\* self.arbol.construir_desde_frecuencias(frecuencias)
PasoConstruir(h) ==
    /\ hilos[h].pc = "construir"
    /\ \E a \in {construir_desde_frecuencias(mem, arbol_raiz,
                                               calcular_frecuencias(hilos[h].texto))} :
          /\ mem' = Recolectar(a.mem, RaicesHilos(a.raiz, hilos))
          /\ arbol_raiz' = a.raiz
          /\ hilos' = [hilos EXCEPT ![h].pc = "generar"]
    /\ UNCHANGED <<arbol_codigos, estadisticas, llamada, ret, error, guardado, local>>

\* codigos = self.arbol.generar_codigos()
PasoGenerar(h) ==
    /\ hilos[h].pc = "generar"
    /\ \E g \in {generar_codigos(mem, arbol_raiz, arbol_codigos)} :
          /\ arbol_codigos' = g.codigos
          /\ hilos' = [hilos EXCEPT ![h].pc = "codificar", ![h].codigos = g.ret]
    /\ UNCHANGED <<mem, arbol_raiz, estadisticas, llamada, ret, error, guardado, local>>

\* texto_codificado = self._codificar_texto(texto, codigos)
PasoCodificar(h) ==
    /\ hilos[h].pc = "codificar"
    /\ \E t \in {codificar_texto(hilos[h].texto, hilos[h].codigos)} :
          hilos' = [hilos EXCEPT ![h] =
              IF t.error # SinError
              THEN [@ EXCEPT !.pc = "fin", !.error = t.error]
              ELSE [@ EXCEPT !.pc = "estadisticas", !.texto_codificado = t.ret]]
    /\ UNCHANGED <<mem, arbol_raiz, arbol_codigos, estadisticas, llamada, ret, error, guardado, local>>

\* estadisticas = self._generar_estadisticas(...)
\* estadisticas.update(self.arbol.obtener_estadisticas())
\* self.estadisticas = estadisticas
\* return texto_codificado, codigos, self.arbol.raiz, estadisticas
PasoEstadisticas(h, tiempo) ==
    /\ hilos[h].pc = "estadisticas"
    /\ \E e \in {Update(generar_estadisticas(hilos[h].texto, hilos[h].texto_codificado, tiempo),
                         obtener_estadisticas(mem, arbol_raiz, arbol_codigos))} :
          /\ estadisticas' = e
          /\ hilos' = [hilos EXCEPT ![h].pc = "fin",
                         ![h].ret = [texto_codificado |-> hilos[h].texto_codificado,
                                     codigos |-> hilos[h].codigos,
                                     raiz |-> arbol_raiz, estadisticas |-> e]]
    /\ UNCHANGED <<mem, arbol_raiz, arbol_codigos, llamada, ret, error, guardado, local>>

NextConc ==
    \E h \in Hilos :
        \/ \E texto \in Textos : Llamar(h, texto)
        \/ PasoConstruir(h)
        \/ PasoGenerar(h)
        \/ PasoCodificar(h)
        \/ \E tiempo \in Tiempos : PasoEstadisticas(h, tiempo)

SpecConc == Init /\ [][NextConc]_vars

\* ---- construir_desde_frecuencias and descomprimir followed step by step: one
\* step per iteration of their loops.  The tables are dicts given by the caller:
\* distinct symbols in any order of insertion, each with a count from 1 to MaxFrec.
MaxFrec == 2
Ordenes ==
    {s \in Seqs(Symbols, Cardinality(Symbols)) : \A i, j \in 1..Len(s) : i # j => s[i] # s[j]}
TablasFrec ==
    UNION {{[i \in 1..Len(s) |-> <<s[i], f[i]>>] : f \in [1..Len(s) -> 1..MaxFrec]}
           : s \in Ordenes}

\* arbol.construir_desde_frecuencias(frecuencias), on an ArbolHuffman that holds no
\* tree yet, up to the while loop: the empty table raises and the table of one
\* symbol returns at once
EmpezarConstruir(frecuencias) ==
    /\ local.pc = "libre"
    /\ arbol_raiz = None
    /\ IF Len(frecuencias) <= 1
       THEN \E r \in {construir_desde_frecuencias(mem, arbol_raiz, frecuencias)} :
               /\ mem' = Recolectar(r.mem, {r.raiz})
               /\ arbol_raiz' = r.raiz
               /\ local' = [pc |-> "fin", op |-> "construir_desde_frecuencias",
                            frecuencias |-> frecuencias, heap |-> <<>>,
                            combinaciones |-> 0, error |-> r.error]
       ELSE \E st \in {InsertarHojas([mem |-> mem, arena |-> ArenaLibre(mem), heap |-> <<>>],
                                      frecuencias, 1)} :
               /\ mem' = st.mem
               /\ arbol_raiz' = arbol_raiz
               /\ local' = [pc |-> "bucle", op |-> "construir_desde_frecuencias",
                            frecuencias |-> frecuencias, arena |-> st.arena, heap |-> st.heap,
                            izquierdo |-> None, derecho |-> None, padre |-> None,
                            combinaciones |-> 0, error |-> SinError]
    /\ UNCHANGED <<arbol_codigos, estadisticas, llamada, ret, error, guardado, hilos>>

\* one iteration of the while loop; combinaciones counts the iterations
PasoCombinar ==
    /\ local.pc = "bucle"
    /\ CondicionBucle(local.heap)
    /\ \E st \in {Combinar([mem |-> mem, arena |-> local.arena, heap |-> local.heap])} :
          /\ mem' = st.mem
          /\ local' = [local EXCEPT !.heap = st.heap, !.izquierdo = st.izquierdo,
                                    !.derecho = st.derecho, !.padre = st.padre,
                                    !.combinaciones = @ + 1]
    /\ UNCHANGED <<arbol_raiz, arbol_codigos, estadisticas, llamada, ret, error, guardado, hilos>>

\* the loop is left: self.raiz = heap[0], and the tree of before is dropped
TerminarConstruir ==
    /\ local.pc = "bucle"
    /\ ~CondicionBucle(local.heap)
    /\ arbol_raiz' = local.heap[1]
    /\ mem' = Recolectar(mem, {local.heap[1]})
    /\ local' = [local EXCEPT !.pc = "fin"]
    /\ UNCHANGED <<arbol_codigos, estadisticas, llamada, ret, error, guardado, hilos>>

\* compresor.descomprimir(texto_codificado, raiz) up to the for loop, raiz being
\* None or the tree of the ArbolHuffman: without digits, without a tree or with a
\* tree that is one leaf the call returns at once
EmpezarDescomprimir(texto_codificado, raiz, tiempo) ==
    /\ local.pc = "libre"
    /\ raiz \in {None, arbol_raiz}
    /\ IF texto_codificado = <<>> \/ raiz = None \/ es_hoja(mem[raiz])
       THEN \E r \in {descomprimir(mem, texto_codificado, raiz, tiempo)} :
               local' = [pc |-> "fin", op |-> "descomprimir",
                         texto_codificado |-> texto_codificado, raiz |-> raiz, i |-> 0,
                         st |-> [nodo_actual |-> r.nodo_actual, texto_decodificado |-> <<>>,
                                 error |-> r.error],
                         ret |-> r.ret]
       ELSE local' = [pc |-> "digitos", op |-> "descomprimir",
                      texto_codificado |-> texto_codificado, raiz |-> raiz, i |-> 0,
                      st |-> [nodo_actual |-> raiz, texto_decodificado |-> <<>>,
                              error |-> SinError],
                      ret |-> <<>>]
    /\ UNCHANGED <<mem, arbol_raiz, arbol_codigos, estadisticas, llamada, ret, error, guardado,
                   hilos>>

\* one iteration of the for loop: the digit at position i + 1 is consumed; a step
\* that raises ends the call
PasoDigito ==
    /\ local.pc = "digitos"
    /\ local.i < Len(local.texto_codificado)
    /\ \E s \in {PasoDecodificar(mem, local.raiz, local.st,
                                   local.texto_codificado[local.i + 1])} :
          local' = [local EXCEPT !.i = @ + 1, !.st = s,
                                 !.pc = IF s.error # SinError THEN "fin" ELSE @]
    /\ UNCHANGED <<mem, arbol_raiz, arbol_codigos, estadisticas, llamada, ret, error, guardado,
                   hilos>>

\* the digits are exhausted: the statistics and the return
TerminarDescomprimir(tiempo) ==
    /\ local.pc = "digitos"
    /\ local.i = Len(local.texto_codificado)
    /\ local' = [local EXCEPT !.pc = "fin",
                     !.ret = [texto_decodificado |-> local.st.texto_decodificado,
                              estadisticas |->
                                  [tiempo_descompresion |-> tiempo,
                                   longitud_decodificada |-> Len(local.st.texto_decodificado),
                                   exito |-> TRUE]]]
    /\ UNCHANGED <<mem, arbol_raiz, arbol_codigos, estadisticas, llamada, ret, error, guardado,
                   hilos>>

\* the call returns to its caller and its local variables are gone
Volver ==
    /\ local.pc = "fin"
    /\ local' = Libre
    /\ UNCHANGED <<mem, arbol_raiz, arbol_codigos, estadisticas, llamada, ret, error, guardado,
                   hilos>>

\* the steps of a call in progress
Avanzar ==
    \/ PasoCombinar
    \/ TerminarConstruir
    \/ PasoDigito
    \/ \E tiempo \in Tiempos : TerminarDescomprimir(tiempo)

NextPasos ==
    \/ \E frecuencias \in TablasFrec : EmpezarConstruir(frecuencias)
    \/ \E texto_codificado \in Cadenas, raiz \in DOMAIN mem \cup {None}, tiempo \in Tiempos :
          EmpezarDescomprimir(texto_codificado, raiz, tiempo)
    \/ Avanzar
    \/ Volver

SpecPasos == Init /\ [][NextPasos]_vars

\* a call in progress is not suspended for ever: the interpreter keeps running
\* the thread that is inside the call
SpecPasosJusta == Init /\ [][NextPasos]_vars /\ WF_vars(Avanzar)

\* ------------------------------------------------------- properties
Distintos(texto) == {texto[i] : i \in 1..Len(texto)}
ComprimirHecho == llamada.op = "comprimir" /\ error = SinError
EsPrefijo(a, b) == Len(a) <= Len(b) /\ SubSeq(b, 1, Len(a)) = a

\* C1: round trip.  Decoding the encoded text and tree returned by comprimir(S)
\* returns S, for every S: the empty text and a repeated symbol included.
C1_RoundTrip ==
    (llamada.op = "descomprimir") =>
        /\ error = SinError
        /\ llamada.texto_codificado = guardado.texto_codificado
        /\ llamada.raiz = guardado.raiz
        /\ ret.texto_decodificado = guardado.texto

C1_Witness ==
    /\ llamada.op = "descomprimir"
    /\ Len(guardado.texto) = MaxLen
    /\ Distintos(guardado.texto) = Symbols
    /\ ret.texto_decodificado = guardado.texto

\* C2: prefix-free.  In every codebook returned by comprimir no code is a prefix
\* of the code of another symbol, the codes are pairwise different and none is empty.
LibreDePrefijos(codigos) ==
    \A x \in DOMAIN codigos :
        /\ Len(codigos[x]) > 0
        /\ \A y \in (DOMAIN codigos) \ {x} :
              /\ codigos[x] # codigos[y]
              /\ ~EsPrefijo(codigos[x], codigos[y])

C2_PrefixFree == ComprimirHecho => LibreDePrefijos(ret.codigos) /\ LibreDePrefijos(arbol_codigos)

C2_Witness ==
    /\ ComprimirHecho
    /\ DOMAIN ret.codigos = Symbols
    /\ \E x \in Symbols : Len(ret.codigos[x]) = 2
    /\ LibreDePrefijos(ret.codigos)

\* C3: determinism.  comprimir on a compressor with any history of calls returns
\* the same tree (shape, caracter and frecuencia of every node) and the same
\* codebook as comprimir of the same text on a new compressor.
C3_Determinism ==
    ComprimirHecho =>
        LET f == comprimir(CompresorNuevo, llamada.texto, 0)
        IN /\ Desplegar(mem, ret.raiz) = Desplegar(f.c.mem, f.ret.raiz)
           /\ ret.codigos = f.ret.codigos

\* a second tree built while the tree of an earlier call was alive
C3_Witness ==
    /\ ComprimirHecho
    /\ Distintos(llamada.texto) = Symbols
    /\ ret.raiz > TamArena
    /\ ret.codigos = comprimir(CompresorNuevo, llamada.texto, 0).ret.codigos

\* C8: comprimir of the empty text returns an empty encoded text, an empty
\* codebook, no tree and statistics whose lengths, bit counts, rate, factor and
\* saved bits are zero, whatever the compressor compressed before.
C8_EmptyInput ==
    (llamada.op = "comprimir" /\ llamada.texto = <<>>) =>
        /\ error = SinError
        /\ ret.texto_codificado = <<>>
        /\ ret.codigos = <<>>
        /\ ret.raiz = None
        /\ ret.estadisticas.longitud_original = 0
        /\ ret.estadisticas.longitud_comprimida = 0
        /\ ret.estadisticas.bits_originales = 0
        /\ ret.estadisticas.bits_comprimidos = 0
        /\ ret.estadisticas.tasa_compresion = Cero
        /\ ret.estadisticas.factor_compresion = Cero
        /\ ret.estadisticas.bits_ahorrados = 0

\* the empty text compressed by a compressor that holds the tree of an earlier text
C8_Witness ==
    /\ llamada.op = "comprimir" /\ llamada.texto = <<>>
    /\ error = SinError /\ ret.raiz = None /\ ret.codigos = <<>>
    /\ arbol_raiz # None /\ DOMAIN arbol_codigos = Symbols

\* C10: for a text of n >= 1 occurrences of one symbol s, comprimir returns the
\* codebook {s: "0"}, n digits "0" and a tree that is one leaf holding s with weight n.
C10_SingleSymbol ==
    (llamada.op = "comprimir" /\ Cardinality(Distintos(llamada.texto)) = 1) =>
        LET s == llamada.texto[1]
            n == Len(llamada.texto)
        IN /\ error = SinError
           /\ DOMAIN ret.codigos = {s}
           /\ ret.codigos[s] = <<"0">>
           /\ ret.texto_codificado = [i \in 1..n |-> "0"]
           /\ ret.raiz # None
           /\ mem[ret.raiz] = NodoHuffman(s, n, None, None)

C10_Witness ==
    /\ ComprimirHecho
    /\ Cardinality(Distintos(llamada.texto)) = 1
    /\ Len(llamada.texto) = MaxLen
    /\ ret.texto_codificado = [i \in 1..MaxLen |-> "0"]
    /\ arbol_raiz = ret.raiz

\* C5: descomprimir raises when the digits end inside a code, that is with
\* nodo_actual on an internal node other than the root, and returns no text then.
C5_TruncatedCode ==
    (llamada.op = "descomprimir" /\ llamada.nodo_actual \notin {None, llamada.raiz}) =>
        error # SinError /\ ret = <<>>

\* C6: construir_desde_frecuencias of a table without entries raises ValueError
\* and leaves raiz, codigos and the nodes of the tree built before as they were.
C6_EmptyAlphabet ==
    [][(llamada'.op = "construir_desde_frecuencias" /\ llamada'.frecuencias = <<>>) =>
          /\ error' = "ValueError"
          /\ arbol_raiz' = arbol_raiz
          /\ arbol_codigos' = arbol_codigos
          /\ mem' = mem]_vars

C6_Witness ==
    /\ llamada.op = "construir_desde_frecuencias" /\ llamada.frecuencias = <<>>
    /\ error = "ValueError"
    /\ arbol_raiz # None /\ ~es_hoja(mem[arbol_raiz])
    /\ DOMAIN arbol_codigos = Symbols

\* C7: encoding a text with a codebook that lacks one of its symbols raises
\* (KeyError) and returns nothing, not even the codes of the symbols before it.
C7_UnknownSymbol ==
    (llamada.op = "codificar_texto" /\ ~(Distintos(llamada.texto) \subseteq DOMAIN llamada.codigos)) =>
        error = "KeyError" /\ ret = <<>>

\* the codebook has a code for the first symbols of the text and none for the last
C7_Witness ==
    /\ llamada.op = "codificar_texto"
    /\ Len(llamada.texto) = MaxLen
    /\ llamada.texto[1] \in DOMAIN llamada.codigos
    /\ llamada.texto[MaxLen] \notin DOMAIN llamada.codigos
    /\ error = "KeyError"

\* C9: descomprimir returns the empty text without raising when the tree is None
\* or the encoded text is empty, whatever the other argument is.
C9_EmptyDecode ==
    (llamada.op = "descomprimir" /\ (llamada.texto_codificado = <<>> \/ llamada.raiz = None)) =>
        error = SinError /\ ret.texto_decodificado = <<>>

C9_Witness ==
    /\ llamada.op = "descomprimir"
    /\ llamada.raiz = None /\ Len(llamada.texto_codificado) = MaxBits
    /\ guardado.raiz # None
    /\ error = SinError /\ ret.texto_decodificado = <<>>

\* what comprimir(texto) returns when it is the only call on a compressor
Solo(texto) == comprimir(CompresorNuevo, texto, 0)
EstadisticasArbol(e) ==
    [k \in (DOMAIN e) \cap {"altura", "num_hojas", "num_nodos_internos",
                             "longitud_promedio_codigo"} |-> e[k]]

\* C4: comprimir calls of two threads on one compressor, interleaved between
\* their steps, each return the encoded text, codebook, tree and tree statistics
\* that the call returns when it runs alone.
C4_ConcurrentSafe ==
    \A h \in Hilos :
        hilos[h].pc = "fin" =>
            /\ hilos[h].error = SinError
            /\ LET f == Solo(hilos[h].texto)
               IN /\ hilos[h].ret.texto_codificado = f.ret.texto_codificado
                  /\ hilos[h].ret.codigos = f.ret.codigos
                  /\ Desplegar(mem, hilos[h].ret.raiz) = Desplegar(f.c.mem, f.ret.raiz)
                  /\ EstadisticasArbol(hilos[h].ret.estadisticas)
                       = EstadisticasArbol(f.ret.estadisticas)

\* the caracter of the leaves under r, from left to right
RECURSIVE HojasDe(_, _)
HojasDe(m, r) ==
    IF r = None THEN <<>>
    ELSE IF m[r].izquierdo = None /\ m[r].derecho = None THEN <<m[r].caracter>>
    ELSE HojasDe(m, m[r].izquierdo) \o HojasDe(m, m[r].derecho)

\* C11: for a non-empty text, the symbols on the leaves of the tree returned, the
\* keys of the codebook returned and the distinct symbols of the text are one set,
\* no symbol is on two leaves and num_hojas is the number of distinct symbols.
C11_LeafSet ==
    (ComprimirHecho /\ llamada.texto # <<>>) =>
        LET hojas == HojasDe(mem, ret.raiz)
            simbolos == Distintos(llamada.texto)
        IN /\ {hojas[i] : i \in 1..Len(hojas)} = simbolos
           /\ Len(hojas) = Cardinality(simbolos)
           /\ DOMAIN ret.codigos = simbolos
           /\ ret.estadisticas.num_hojas = Cardinality(simbolos)

C11_Witness ==
    /\ ComprimirHecho
    /\ Len(llamada.texto) = MaxLen
    /\ Cardinality(Distintos(llamada.texto)) = 2
    /\ ret.estadisticas.num_hojas = 2
    /\ Len(HojasDe(mem, ret.raiz)) = 2

\* the sum of the frecuencia column of a table
RECURSIVE SumaTabla(_)
SumaTabla(tabla) == IF tabla = <<>> THEN 0 ELSE tabla[1][2] + SumaTabla(Tail(tabla))

Ocurrencias(texto, c) == Cardinality({i \in 1..Len(texto) : texto[i] = c})

\* C12: calcular_frecuencias(texto) has exactly one entry per distinct symbol of
\* texto, holding the number of occurrences of that symbol, so that every value
\* is at least 1 and the values add up to the length of texto; the table of the
\* empty text is empty.
C12_Frequencies ==
    (llamada.op = "calcular_frecuencias") =>
        /\ error = SinError
        /\ {ret[i][1] : i \in 1..Len(ret)} = Distintos(llamada.texto)
        /\ Len(ret) = Cardinality(Distintos(llamada.texto))
        /\ \A i \in 1..Len(ret) :
              ret[i][2] = Ocurrencias(llamada.texto, ret[i][1]) /\ ret[i][2] >= 1
        /\ SumaTabla(ret) = Len(llamada.texto)
        /\ (llamada.texto = <<>> => ret = <<>>)

\* a table with a symbol counted more than once and a symbol counted once
C12_Witness ==
    /\ llamada.op = "calcular_frecuencias"
    /\ Len(llamada.texto) = MaxLen
    /\ Len(ret) = 2
    /\ \E i \in 1..Len(ret) : ret[i][2] = MaxLen - 1

\* a > b for two fractions with positive denominators
Mayor(a, b) == a[1] * b[2] > b[1] * a[2]

\* C13: for a text of n >= 1 copies of one symbol the encoded text has n digits,
\* one per occurrence, and the compression rate reported is above 80 percent.
C13_RepeatedSymbol ==
    (ComprimirHecho /\ Cardinality(Distintos(llamada.texto)) = 1) =>
        LET n == Len(llamada.texto)
        IN /\ Len(ret.texto_codificado) = n
           /\ ret.estadisticas.longitud_comprimida = n
           /\ ret.estadisticas.bits_comprimidos = n
           /\ Mayor(ret.estadisticas.tasa_compresion, Frac(80, 1))

C13_Witness ==
    /\ ComprimirHecho
    /\ llamada.texto = [i \in 1..MaxLen |-> "B"]
    /\ Len(ret.texto_codificado) = MaxLen
    /\ ret.estadisticas.tasa_compresion = Frac(7 * MaxLen * 100, 8 * MaxLen)

\* C14: the tree and the codebook returned by a comprimir call are not changed by
\* the comprimir and descomprimir calls made after it, and descomprimir of that
\* call's encoded text and tree returns that call's text after any of them.
C14_Independent ==
    [][guardado # <<>> =>
          /\ guardado'.raiz = guardado.raiz
          /\ guardado'.texto_codificado = guardado.texto_codificado
          /\ guardado'.codigos = guardado.codigos
          /\ \A n \in Alcanzables(mem, guardado.raiz) : n \in DOMAIN mem' /\ mem'[n] = mem[n]
          /\ (llamada'.op = "descomprimir" =>
                 error' = SinError /\ ret'.texto_decodificado = guardado.texto)]_vars

\* the first result decoded after at least two later calls built other trees
C14_Witness ==
    /\ llamada.op = "descomprimir"
    /\ Distintos(guardado.texto) = Symbols
    /\ ret.texto_decodificado = guardado.texto
    /\ arbol_raiz > 2 * TamArena
    /\ guardado.raiz <= TamArena
    /\ arbol_codigos # guardado.codigos

\* the for loop of descomprimir was entered by the call that local describes
BucleDeDigitos ==
    /\ local.op = "descomprimir"
    /\ local.texto_codificado # <<>>
    /\ local.raiz # None
    /\ ~es_hoja(mem[local.raiz])

\* C15: the loops end.  A construir_desde_frecuencias in its while loop and a
\* descomprimir in its for loop reach their end; for a table of k >= 2 symbols the
\* while loop is left after exactly k - 1 iterations with one node in the heap;
\* each iteration of the for loop consumes the next digit and the loop is left,
\* unless it raised, when the m digits are consumed.
C15_Termination ==
    /\ [](local.pc = "fin" /\ local.op = "construir_desde_frecuencias"
              /\ Len(local.frecuencias) >= 2 =>
                 local.combinaciones = Len(local.frecuencias) - 1 /\ Len(local.heap) = 1)
    /\ [](local.pc = "fin" /\ BucleDeDigitos /\ local.st.error = SinError =>
                 local.i = Len(local.texto_codificado))
    /\ [][local.pc = "digitos" /\ local'.pc # "fin" => local'.i = local.i + 1]_vars
    /\ (local.pc \in {"bucle", "digitos"} ~> local.pc = "fin")

\* a table of three symbols with different counts, built in two iterations
C15_Witness ==
    /\ local.pc = "fin" /\ local.op = "construir_desde_frecuencias"
    /\ Len(local.frecuencias) = Cardinality(Symbols)
    /\ \E i, j \in 1..Len(local.frecuencias) : local.frecuencias[i][2] < local.frecuencias[j][2]
    /\ local.combinaciones = Cardinality(Symbols) - 1
    /\ Len(local.heap) = 1

\* two texts with the same number of occurrences of every symbol
MismosConteos(t1, t2) == \A c \in Symbols : Ocurrencias(t1, c) = Ocurrencias(t2, c)

\* C16: the tree and the codebook depend on the counts of the symbols only.  What
\* comprimir returns for a text is what it returns for every text with the same
\* count of every symbol, whatever the order in which the symbols first occur.
C16_OrderIrrelevant ==
    ComprimirHecho =>
        \A t \in Textos :
            MismosConteos(t, llamada.texto) =>
                /\ Desplegar(Solo(t).c.mem, Solo(t).ret.raiz) = Desplegar(mem, ret.raiz)
                /\ Solo(t).ret.codigos = ret.codigos

ConstruirHecho ==
    local.pc = "fin" /\ local.op = "construir_desde_frecuencias" /\ local.error = SinError
Construyendo == local.pc = "bucle"
Elementos(seq) == {seq[i] : i \in 1..Len(seq)}
FrecuenciaEn(tabla, c) == tabla[CHOOSE i \in 1..Len(tabla) : tabla[i][1] = c][2]
EsInterno(nodo) == nodo.izquierdo # None \/ nodo.derecho # None

\* C17: in the tree built from a table, and in every tree of the heap while it is
\* built, the weight of a node with children is the sum of the weights of its two
\* children and the weight of a leaf is the count of its symbol in the table; the
\* weight of the root of the tree built is the sum of the counts of the table.
C17_Weights ==
    (Construyendo \/ ConstruirHecho) =>
        /\ \A n \in DOMAIN mem :
              IF EsInterno(mem[n])
              THEN /\ mem[n].izquierdo \in DOMAIN mem /\ mem[n].derecho \in DOMAIN mem
                   /\ mem[n].frecuencia = mem[mem[n].izquierdo].frecuencia
                                            + mem[mem[n].derecho].frecuencia
              ELSE mem[n].frecuencia = FrecuenciaEn(local.frecuencias, mem[n].caracter)
        /\ ConstruirHecho => mem[arbol_raiz].frecuencia = SumaTabla(local.frecuencias)

\* a tree of three leaves whose counts are not all the same
C17_Witness ==
    /\ ConstruirHecho
    /\ Len(local.frecuencias) = Cardinality(Symbols)
    /\ mem[arbol_raiz].frecuencia = 2 * MaxFrec + 1
    /\ \E n \in DOMAIN mem : n # arbol_raiz /\ EsInterno(mem[n])

\* the (parent, side) pairs that refer to node n
Padres(m, n) ==
    {<<p, "izquierdo">> : p \in {x \in DOMAIN m : m[x].izquierdo = n}}
        \cup {<<p, "derecho">> : p \in {x \in DOMAIN m : m[x].derecho = n}}
Hijos(m, S) == UNION {{m[x].izquierdo, m[x].derecho} \cap DOMAIN m : x \in S \cap DOMAIN m}
RECURSIVE Desciende(_, _, _)
Desciende(m, S, k) == IF k = 0 THEN S ELSE Desciende(m, S \cup Hijos(m, S), k - 1)
Descendientes(m, n) == Desciende(m, Hijos(m, {n}), Cardinality(DOMAIN m))

\* C18: the tree built, and every tree of the heap after every iteration of the
\* while loop, is a full binary tree that owns its nodes: a node with children
\* has two of them and no symbol, a leaf has a symbol and no children, no node is
\* referred to by two parents or twice by one, and no node descends from itself.
C18_OwnershipTree ==
    (Construyendo \/ ConstruirHecho) =>
        /\ Elementos(local.heap) \subseteq DOMAIN mem
        /\ \A n \in DOMAIN mem :
              /\ IF es_hoja(mem[n])
                 THEN mem[n].izquierdo = None /\ mem[n].derecho = None
                 ELSE /\ mem[n].izquierdo \in DOMAIN mem
                      /\ mem[n].derecho \in DOMAIN mem
              /\ Cardinality(Padres(mem, n)) <= 1
              /\ n \notin Descendientes(mem, n)
        /\ \A n \in Elementos(local.heap) : Padres(mem, n) = {}

\* after the first iteration on three symbols: a tree of two leaves and a leaf
C18_Witness ==
    /\ Construyendo
    /\ local.combinaciones = 1
    /\ Len(local.heap) = 2
    /\ \E n \in Elementos(local.heap) : ~es_hoja(mem[n])
    /\ \E n \in Elementos(local.heap) : es_hoja(mem[n])

\* C19: in every iteration of the while loop the two nodes popped are two nodes of
\* the heap of lowest weight: neither weighs more than a node left in the heap,
\* the first popped weighs no more than the second, and the new parent, pushed
\* on the heap, has the first as its left child and the second as its right child.
C19_TwoLowest ==
    [][(Construyendo /\ local'.pc = "bucle"
           /\ local'.combinaciones = local.combinaciones + 1) =>
          LET izquierdo == local'.izquierdo
              derecho == local'.derecho
              padre == local'.padre
              resto == Elementos(local.heap) \ {izquierdo, derecho}
          IN /\ {izquierdo, derecho} \subseteq Elementos(local.heap)
             /\ izquierdo # derecho
             /\ \A n \in resto : /\ mem[izquierdo].frecuencia <= mem[n].frecuencia
                                  /\ mem[derecho].frecuencia <= mem[n].frecuencia
             /\ mem[izquierdo].frecuencia <= mem[derecho].frecuencia
             /\ padre \notin DOMAIN mem
             /\ mem'[padre].izquierdo = izquierdo
             /\ mem'[padre].derecho = derecho
             /\ Elementos(local'.heap) = resto \cup {padre}
             /\ Len(local'.heap) = Len(local.heap) - 1]_vars

\* the leaf pushed first is the heaviest and stays in the heap: the two lighter
\* leaves pushed after it were popped
C19_Witness ==
    /\ Construyendo
    /\ local.combinaciones = 1
    /\ Len(local.frecuencias) = Cardinality(Symbols)
    /\ local.frecuencias[1][2] = MaxFrec
    /\ mem[local.izquierdo].frecuencia < MaxFrec
    /\ mem[local.derecho].frecuencia < MaxFrec
    /\ \E n \in Elementos(local.heap) : mem[n].caracter = local.frecuencias[1][1]

RECURSIVE Concatenar(_, _)
Concatenar(texto, codigos) ==
    IF texto = <<>> THEN <<>>
    ELSE codigos[texto[1]] \o Concatenar(Tail(texto), codigos)

RECURSIVE SumaPonderada(_, _, _)
SumaPonderada(texto, codigos, simbolos) ==
    IF simbolos = {} THEN 0
    ELSE LET c == CHOOSE x \in simbolos : TRUE
         IN Ocurrencias(texto, c) * Len(codigos[c])
                + SumaPonderada(texto, codigos, simbolos \ {c})

\* C20: the encoded text returned by comprimir is the codes of the characters of
\* the text, in the order of the text, one after the other; its length is the sum
\* over the distinct symbols of occurrences times length of the code.
C20_Concatenation ==
    ComprimirHecho =>
        /\ ret.texto_codificado = Concatenar(llamada.texto, ret.codigos)
        /\ Len(ret.texto_codificado)
              = SumaPonderada(llamada.texto, ret.codigos, Distintos(llamada.texto))

\* three symbols with codes of one and two digits, the first symbol not first
C20_Witness ==
    /\ ComprimirHecho
    /\ Distintos(llamada.texto) = Symbols
    /\ Len(ret.texto_codificado) = 2 * Cardinality(Symbols) - 1
    /\ Len(ret.codigos[llamada.texto[1]]) = 2
    /\ Len(ret.codigos[llamada.texto[MaxLen]]) = 1

\* the node a digit leads to from the cursor
Siguiente(m, nodo, bit) == IF bit = "0" THEN m[nodo].izquierdo ELSE m[nodo].derecho

\* C21: the decoder of a tree of two leaves or more.  The cursor starts at the
\* root; before every digit it is a node with children of the tree given, never a
\* leaf and never None; a digit moves it to the left child ("0") or to the right
\* child, and a symbol, that of the leaf, is added to the text exactly when that
\* child is a leaf, the cursor being then back at the root.
C21_DecoderMachine ==
    /\ [](local.pc = "digitos" =>
             /\ local.st.nodo_actual \in Alcanzables(mem, local.raiz)
             /\ ~es_hoja(mem[local.st.nodo_actual])
             /\ (local.i = 0 => local.st.nodo_actual = local.raiz
                                   /\ local.st.texto_decodificado = <<>>))
    /\ [][(local.pc = "digitos" /\ local'.pc \in {"digitos", "fin"}
              /\ local'.i = local.i + 1) =>
             LET sig == Siguiente(mem, local.st.nodo_actual,
                                  local.texto_codificado[local.i + 1])
             IN /\ sig \in DOMAIN mem
                /\ local'.st.error = SinError
                /\ IF es_hoja(mem[sig])
                   THEN /\ local'.st.texto_decodificado
                              = Append(local.st.texto_decodificado, mem[sig].caracter)
                        /\ local'.st.nodo_actual = local.raiz
                   ELSE /\ local'.st.texto_decodificado = local.st.texto_decodificado
                        /\ local'.st.nodo_actual = sig]_vars

\* digits that cross a node below the root, reach a leaf and leave the root again
C21_Witness ==
    /\ local.pc = "digitos"
    /\ local.i = MaxBits
    /\ Len(local.st.texto_decodificado) = 1
    /\ local.st.nodo_actual \notin {None, local.raiz}
    /\ ~es_hoja(mem[local.st.nodo_actual])

\* C22: with a tree that is one leaf, descomprimir returns the symbol of the leaf
\* once per digit, whatever the digits are: the text returned is as long as the
\* digit string and longitud_decodificada is that length.
C22_SingleLeafDecode ==
    (llamada.op = "descomprimir" /\ llamada.raiz # None /\ es_hoja(mem[llamada.raiz])) =>
        /\ error = SinError
        /\ ret.texto_decodificado
              = [i \in 1..Len(llamada.texto_codificado) |-> mem[llamada.raiz].caracter]
        /\ Len(ret.texto_decodificado) = Len(llamada.texto_codificado)
        /\ (llamada.texto_codificado # <<>> =>
               ret.estadisticas.longitud_decodificada = Len(llamada.texto_codificado))

\* digits that are not those comprimir produced for the one-symbol text
C22_Witness ==
    /\ llamada.op = "descomprimir"
    /\ llamada.raiz # None /\ es_hoja(mem[llamada.raiz])
    /\ Len(llamada.texto_codificado) = MaxBits
    /\ llamada.texto_codificado[1] = "1" /\ llamada.texto_codificado[MaxBits] = "0"
    /\ Len(guardado.texto) < MaxBits
    /\ Len(ret.texto_decodificado) = MaxBits

Conteos(e, n, d) ==
    /\ e.longitud_original = n
    /\ e.bits_originales = 8 * n
    /\ e.longitud_comprimida = d
    /\ e.bits_comprimidos = d
    /\ e.bits_ahorrados = 8 * n - d
    /\ (d > 8 * n => e.bits_ahorrados < 0)

\* C24: for a non-empty text of n symbols and an encoded text of d digits the
\* statistics report longitud_original = n, bits_originales = 8n,
\* longitud_comprimida = bits_comprimidos = d and bits_ahorrados = 8n - d, below
\* zero when d > 8n: in what comprimir returns, d being the length of the encoded
\* text it returns, and in what _generar_estadisticas returns for any d.
C24_StatisticsCounts ==
    /\ (guardado # <<>> /\ guardado.texto # <<>>) =>
          Conteos(guardado.estadisticas, Len(guardado.texto), Len(guardado.texto_codificado))
    /\ (llamada.op = "generar_estadisticas" /\ llamada.texto_original # <<>>) =>
          Conteos(ret, Len(llamada.texto_original), Len(llamada.texto_codificado))

\* more than 8 digits for one character, after comprimir of three symbols
C24_Witness ==
    /\ llamada.op = "generar_estadisticas"
    /\ Len(llamada.texto_original) = 1
    /\ Len(llamada.texto_codificado) > 8
    /\ ret.bits_ahorrados < 0
    /\ Distintos(guardado.texto) = Symbols
    /\ guardado.estadisticas.bits_ahorrados = 8 * MaxLen - (2 * Cardinality(Symbols) - 1)

\* the number of edges of the longest path from a node of S down to a leaf
RECURSIVE Niveles(_, _)
Niveles(m, S) == IF Hijos(m, S) = {} THEN 0 ELSE 1 + Niveles(m, Hijos(m, S))

LongitudMaxima(codigos) ==
    CHOOSE n \in {Len(codigos[c]) : c \in DOMAIN codigos} :
        \A c \in DOMAIN codigos : Len(codigos[c]) <= n

\* C25: obtener_estadisticas of a tree of k leaves reports num_hojas = k,
\* num_nodos_internos = k - 1 when k >= 2 and 0 when k = 1, and as altura the
\* number of edges of the longest path from the root to a leaf: the length of the
\* longest code of the tree when k >= 2, and 0 when k = 1.
C25_TreeMetrics ==
    (llamada.op = "obtener_estadisticas" /\ arbol_raiz # None) =>
        LET k == Len(HojasDe(mem, arbol_raiz))
        IN /\ ret.num_hojas = k
           /\ ret.num_nodos_internos = (IF k >= 2 THEN k - 1 ELSE 0)
           /\ ret.num_nodos_internos = Cardinality({n \in DOMAIN mem : EsInterno(mem[n])})
           /\ ret.altura = Niveles(mem, {arbol_raiz})
           /\ ret.altura = (IF k >= 2
                            THEN LongitudMaxima(generar_codigos(mem, arbol_raiz, <<>>).ret)
                            ELSE 0)

\* a tree of four leaves that is not balanced: three internal nodes, height 3
C25_Witness ==
    /\ llamada.op = "obtener_estadisticas"
    /\ arbol_raiz # None
    /\ ret.num_hojas = Cardinality(SimbolosTabla)
    /\ ret.num_nodos_internos = Cardinality(SimbolosTabla) - 1
    /\ ret.altura = Cardinality(SimbolosTabla) - 1
    /\ es_hoja(mem[mem[arbol_raiz].izquierdo])

\* the mean of the lengths of the codes of a codebook, 0.0 for an empty one
Media(codigos) ==
    IF DOMAIN codigos = {} THEN Cero
    ELSE Frac(SumaLongitudes(codigos, DOMAIN codigos), Cardinality(DOMAIN codigos))

\* C26: the longitud_promedio_codigo that obtener_estadisticas reports is the mean
\* of the lengths of the codes of the tree that raiz holds, after any sequence of
\* construir_desde_frecuencias and generar_codigos calls, a tree built and not
\* followed by generar_codigos included.
C26_AverageOfCurrentTree ==
    (llamada.op = "obtener_estadisticas" /\ arbol_raiz # None) =>
        ret.longitud_promedio_codigo = Media(generar_codigos(mem, arbol_raiz, <<>>).ret)

\* C27: self.estadisticas holds the statistics of the last operation.  After
\* every comprimir call that returns, the empty text included, it is the
\* statistics that call returned.
C27_LastStatistics ==
    (llamada.op = "comprimir" /\ error = SinError) => estadisticas = ret.estadisticas

\* C28: in the codebook generated from the tree of a table of two symbols or
\* more, a symbol with a strictly higher count than another never has a longer
\* code than it; every symbol of the table has a code.
C28_FrequentNotLonger ==
    [][(llamada.op = "construir_desde_frecuencias" /\ error = SinError
           /\ Len(llamada.frecuencias) >= 2 /\ llamada'.op = "generar_codigos") =>
          LET tabla == llamada.frecuencias
              codigos == ret'
          IN /\ DOMAIN codigos = {tabla[i][1] : i \in 1..Len(tabla)}
             /\ arbol_codigos' = codigos
             /\ \A i, j \in 1..Len(tabla) :
                   tabla[i][2] > tabla[j][2] =>
                       Len(codigos[tabla[i][1]]) <= Len(codigos[tabla[j][1]])]_vars

\* four symbols, the one inserted last with the highest count and the shortest
\* code, the one inserted first with the lowest count and the longest code
C28_Witness ==
    /\ llamada.op = "generar_codigos"
    /\ DOMAIN ret = SimbolosTabla
    /\ LET primera == mem[1]
           ultima == mem[Cardinality(SimbolosTabla)]
       IN /\ primera.frecuencia = 1 /\ ultima.frecuencia = MaxFrecTabla
          /\ Len(ret[primera.caracter]) = Cardinality(SimbolosTabla) - 1
          /\ Len(ret[ultima.caracter]) = 1

RECURSIVE Potencia(_)
Potencia(n) == IF n = 0 THEN 1 ELSE 2 * Potencia(n - 1)

RECURSIVE SumaSobre(_, _)
SumaSobre(f, S) ==
    IF S = {} THEN 0
    ELSE LET i == CHOOSE x \in S : TRUE IN f[i] + SumaSobre(f, S \ {i})

\* the code lengths l[1..k], each from 1 to k, that a prefix-free code of k symbols
\* can have: the sum of 2^-l[i] is at most 1 (Kraft), and exactly 1 for the codes
\* of a full binary tree
Kraft(l) == SumaSobre([i \in DOMAIN l |-> Potencia(Len(l) - l[i])], DOMAIN l)
LongitudesPosibles(k) == {l \in [1..k -> 1..k] : Kraft(l) <= Potencia(k)}
Costo(tabla, l) == SumaSobre([i \in DOMAIN tabla |-> tabla[i][2] * l[i]], DOMAIN tabla)

\* C29: optimality.  For a table of two symbols or more, the sum of count times
\* code length of the codebook generated from the tree built is the least that
\* the code lengths of a prefix-free code of those symbols can give, and the code
\* lengths generated are those of a full binary tree.
C29_Optimal ==
    [][(llamada.op = "construir_desde_frecuencias" /\ error = SinError
           /\ Len(llamada.frecuencias) >= 2 /\ llamada'.op = "generar_codigos") =>
          LET tabla == llamada.frecuencias
              k == Len(tabla)
              generadas == [i \in 1..k |-> Len(ret'[tabla[i][1]])]
          IN /\ \A i \in 1..k : generadas[i] \in 1..(k - 1)
             /\ Kraft(generadas) = Potencia(k)
             /\ \A l \in LongitudesPosibles(k) : Costo(tabla, generadas) <= Costo(tabla, l)]_vars

\* four symbols with counts such that the tree of four leaves at depth 2 costs
\* more than the tree generated, whose codes have 1, 2, 3 and 3 digits
C29_Witness ==
    /\ llamada.op = "generar_codigos"
    /\ DOMAIN ret = SimbolosTabla
    /\ {Len(ret[c]) : c \in SimbolosTabla} = 1..(Cardinality(SimbolosTabla) - 1)
    /\ LET hojas == {n \in DOMAIN mem : es_hoja(mem[n])}
           costo == SumaSobre([n \in hojas |-> mem[n].frecuencia * Len(ret[mem[n].caracter])],
                              hojas)
           total == SumaSobre([n \in hojas |-> mem[n].frecuencia], hojas)
       IN costo < 2 * total

\* what descomprimir returns as text for digits and the tree the caller holds
Decodificado(digitos) == descomprimir(mem, digitos, guardado.raiz, 0).ret.texto_decodificado

\* C30: with the tree and the codebook that comprimir returned for a text of two
\* distinct symbols or more, descomprimir of the codes of any text T over those
\* symbols, one after the other, returns T, whether or not T is the text that was
\* compressed; and cut anywhere in two texts T1 and T2, the digits decoded are the
\* codes of T1 followed by those of T2 and the text returned is what the codes of
\* T1 decode to followed by what the codes of T2 decode to.
C30_DecodeAnyText ==
    (llamada.op = "descomprimir" /\ "texto" \in DOMAIN llamada
        /\ Cardinality(DOMAIN guardado.codigos) >= 2) =>
        /\ error = SinError
        /\ llamada.texto_codificado = Concatenar(llamada.texto, guardado.codigos)
        /\ ret.texto_decodificado = llamada.texto
        /\ \A i \in 1..(Len(llamada.texto) - 1) :
              LET T1 == SubSeq(llamada.texto, 1, i)
                  T2 == SubSeq(llamada.texto, i + 1, Len(llamada.texto))
                  E1 == Concatenar(T1, guardado.codigos)
                  E2 == Concatenar(T2, guardado.codigos)
              IN /\ llamada.texto_codificado = E1 \o E2
                 /\ ret.texto_decodificado = Decodificado(E1) \o Decodificado(E2)
                 /\ Decodificado(E1) = T1 /\ Decodificado(E2) = T2

\* a text that is not the text compressed, over the three symbols of the tree
C30_Witness ==
    /\ llamada.op = "descomprimir" /\ "texto" \in DOMAIN llamada
    /\ DOMAIN guardado.codigos = Symbols
    /\ Len(llamada.texto) = MaxLen
    /\ Cardinality(Distintos(llamada.texto)) = 2
    /\ llamada.texto # guardado.texto
    /\ Len(llamada.texto_codificado) > Len(guardado.texto_codificado)
    /\ ret.texto_decodificado = llamada.texto

====
